---- MODULE Spec2Model ----
(***************************************************************************)
(* Blueberry wire format: record codec (head + data blocks, bool packing,  *)
(* alignment), message framing and packet framing with CRC-16-CCITT.       *)
(*                                                                         *)
(* Byte strings are sequences of 0..255.  Python offsets are 0-based, so   *)
(* the byte at Python offset o is element o + 1 of the sequence.           *)
(* Python's None is modelled by the integer -1 where the field otherwise   *)
(* holds a non-negative integer.                                           *)
(***************************************************************************)
EXTENDS Integers, Sequences, FiniteSets, TLC

VARIABLES
    pc,        \* position of the driver
    mode,      \* "standalone" (serialize/deserialize), "message", or "packet"
    schema,    \* the record type: a tuple of field annotations
    value,     \* the record value: a tuple of field values, in field order
    keys,      \* <<module_key, message_key>>
    idx,       \* index of the next top-level field of the running loop
    ser,       \* the Serializer object
    out,       \* the bytes returned by serialize / serialize_message
    de,        \* the Deserializer object
    header,    \* the MessageHeader returned by deserialize_message
    decoded,   \* kwargs of deserialize_model: values decoded so far
    messages,  \* the argument of serialize_packet
    pkt,       \* the buffer handed to deserialize_packet
    touched,   \* what was done to the buffer after serialize_packet
    res        \* the outcome of deserialize_packet

vars == <<pc, mode, schema, value, keys, idx, ser, out, de, header, decoded,
          messages, pkt, touched, res>>

codecVars == <<schema, value, keys, idx, ser, out, de, header, decoded>>
packetVars == <<messages, pkt, touched, res>>

None == -1

(***************************************************************************)
(* Bounds of the model.                                                    *)
(***************************************************************************)
MaxFields == 3
MaxMessages == 2

(***************************************************************************)
(* constants.py                                                            *)
(***************************************************************************)
PACKET_MAGIC == <<66, 108, 117, 101>>
PACKET_HEADER_SIZE == 8
HEADER_SIZE == 8
HEADER_FIELD_COUNT == 3

(***************************************************************************)
(* Bytes and bits.                                                         *)
(***************************************************************************)
Min(a, b) == IF a < b THEN a ELSE b

Zeros(n) == [i \in 1..n |-> 0]

RECURSIVE Pow2(_)
Pow2(n) == IF n = 0 THEN 1 ELSE 2 * Pow2(n - 1)

\* bit k of x
Bit(x, k) == (x \div Pow2(k)) % 2

\* x | (1 << k)
OrBit(x, k) == IF Bit(x, k) = 1 THEN x ELSE x + Pow2(k)

\* a ^ b for non-negative a, b
RECURSIVE Xor(_, _)
Xor(a, b) ==
    IF a = 0 THEN b
    ELSE IF b = 0 THEN a
    ELSE (((a % 2) + (b % 2)) % 2) + 2 * Xor(a \div 2, b \div 2)

\* (x + 3) & ~3
Pad4(x) == ((x + 3) \div 4) * 4

\* Python slice data[a:b]
Slice(data, a, b) ==
    IF a >= Min(b, Len(data)) THEN <<>> ELSE SubSeq(data, a + 1, Min(b, Len(data)))

\* struct.pack of one little-endian integer of n bytes; a negative value
\* comes out in two's complement (\div rounds down, % is non-negative)
RECURSIVE PackInt(_, _)
PackInt(v, n) == IF n = 0 THEN <<>> ELSE <<v % 256>> \o PackInt(v \div 256, n - 1)

\* the unsigned integer held little-endian in a byte string
RECURSIVE FromLE(_)
FromLE(bytes) == IF bytes = <<>> THEN 0 ELSE bytes[1] + 256 * FromLE(Tail(bytes))

\* struct.pack_into("<H", buf, offset, v)
PackIntoH(buf, offset, v) ==
    [buf EXCEPT ![offset + 1] = v % 256, ![offset + 2] = (v \div 256) % 256]

(***************************************************************************)
(* types.py: annotations.  A WireType carries its struct format and size;  *)
(* float formats carry the IEEE-754 bit pattern of the value.              *)
(***************************************************************************)
WireType(fmt, size) == [k |-> "WireType", fmt |-> fmt, size |-> size]
UInt8 == WireType("<B", 1)
Int8 == WireType("<b", 1)
UInt16 == WireType("<H", 2)
Int16 == WireType("<h", 2)
UInt32 == WireType("<I", 4)
UInt64 == WireType("<Q", 8)
Float32 == WireType("<f", 4)
BoolT == [k |-> "bool"]
StrT == [k |-> "str"]
ListT(elem) == [k |-> "list", elem |-> elem]
ModelT(fields) == [k |-> "model", model_fields |-> fields]

is_list_type(annotation) == annotation.k = "list"
list_element_type(annotation) == annotation.elem
is_pydantic_model(tp) == tp.k = "model"

IsSigned(fmt) == fmt \in {"<b", "<h"}

\* struct.pack(fmt, value)
Pack(fmt, size, v) == PackInt(v, size)

\* struct.unpack_from(fmt, data, pos), for pos + size <= len(data)
Unpack(fmt, size, data, pos) ==
    LET u == FromLE(SubSeq(data, pos + 1, pos + size))
    IN IF IsSigned(fmt) /\ u >= Pow2(8 * size - 1) THEN u - Pow2(8 * size) ELSE u

(***************************************************************************)
(* str.encode("utf-8") and bytes.decode("utf-8") for code points below     *)
(* 0x800 (one- and two-byte forms).                                        *)
(***************************************************************************)
RECURSIVE Utf8Encode(_)
Utf8Encode(s) ==
    IF s = <<>> THEN <<>>
    ELSE LET c == Head(s)
         IN (IF c < 128 THEN <<c>> ELSE <<192 + (c \div 64), 128 + (c % 64)>>)
            \o Utf8Encode(Tail(s))

\* [ok, s]: ok is FALSE where Python raises UnicodeDecodeError
RECURSIVE Utf8Decode(_)
Utf8Decode(b) ==
    IF b = <<>> THEN [ok |-> TRUE, s |-> <<>>]
    ELSE IF b[1] < 128
    THEN LET r == Utf8Decode(Tail(b))
         IN [ok |-> r.ok, s |-> <<b[1]>> \o r.s]
    ELSE IF b[1] >= 194 /\ b[1] < 224 /\ Len(b) >= 2 /\ b[2] >= 128 /\ b[2] < 192
    THEN LET r == Utf8Decode(Tail(Tail(b)))
         IN [ok |-> r.ok, s |-> <<(b[1] - 192) * 64 + (b[2] - 128)>> \o r.s]
    ELSE [ok |-> FALSE, s |-> <<>>]

(***************************************************************************)
(* serializer.py: class Serializer.  Each method is an operator from the   *)
(* object before the call to the object after it.                          *)
(***************************************************************************)
SerializerInit ==
    [buf |-> <<>>, pos |-> 0, seq_data_blocks |-> <<>>, seq_fixups |-> <<>>,
     bool_bit_pos |-> 0, bool_byte_offset |-> None, in_seq_data |-> FALSE,
     field_count |-> 0, base_offset |-> 0]

set_base_offset(s, offset) == [s EXCEPT !.base_offset = offset]

\* variant: the block is left as long as it is
_pad_block_none(block) == block

_pad_block(block) ==
    LET padded == Pad4(Len(block))
    IN IF Len(block) < padded THEN block \o Zeros(padded - Len(block)) ELSE block

\* variant: the alignment is the size itself, not capped at 4
_write_padding_uncapped(s, size) ==
    IF s.in_seq_data \/ size <= 1 THEN s
    ELSE LET rem == s.pos % size
         IN IF rem # 0
            THEN [s EXCEPT !.buf = @ \o Zeros(size - rem), !.pos = @ + (size - rem)]
            ELSE s

_write_padding(s, size) ==
    IF s.in_seq_data \/ size <= 1 THEN s
    ELSE LET align == IF size >= 8 THEN 4 ELSE size
             rem == s.pos % align
         IN IF rem # 0
            THEN [s EXCEPT !.buf = @ \o Zeros(align - rem), !.pos = @ + (align - rem)]
            ELSE s

Ser_flush_bools(s) == [s EXCEPT !.bool_bit_pos = 0, !.bool_byte_offset = None]

\* variant: every bool takes a byte of its own
_write_bool_unpacked(s, v) ==
    LET s1 == _write_padding(s, 1)
    IN [s1 EXCEPT !.buf = Append(@, IF v THEN 1 ELSE 0),
                  !.pos = @ + 1,
                  !.bool_bit_pos = 1,
                  !.bool_byte_offset = Len(s1.buf)]

_write_bool(s, v) ==
    IF s.bool_byte_offset # None
    THEN LET s1 == IF v
                   THEN [s EXCEPT !.buf[s.bool_byte_offset + 1] = OrBit(@, s.bool_bit_pos)]
                   ELSE s
             s2 == [s1 EXCEPT !.bool_bit_pos = @ + 1]
         IN IF s2.bool_bit_pos >= 8
            THEN [s2 EXCEPT !.bool_bit_pos = 0, !.bool_byte_offset = None]
            ELSE s2
    ELSE LET s1 == _write_padding(s, 1)
             offset == Len(s1.buf)
         IN [s1 EXCEPT !.buf = Append(@, IF v THEN 1 ELSE 0),
                       !.pos = @ + 1,
                       !.bool_bit_pos = 1,
                       !.bool_byte_offset = offset]

\* variant: the bool run is not ended
_write_primitive_no_flush(s, fmt, size, v) ==
    LET s1 == _write_padding(s, size)
    IN [s1 EXCEPT !.buf = @ \o Pack(fmt, size, v), !.pos = @ + size]

_write_primitive(s, fmt, size, v) ==
    LET s1 == _write_padding(Ser_flush_bools(s), size)
    IN [s1 EXCEPT !.buf = @ \o Pack(fmt, size, v), !.pos = @ + size]

_write_string(s, v) ==
    LET encoded == Utf8Encode(v)
        s1 == _write_padding(Ser_flush_bools(s), 2)
        header_offset == Len(s1.buf)
        block == _pad_block(PackInt(Len(encoded), 4) \o encoded)
        block_idx == Len(s1.seq_data_blocks)
    IN [s1 EXCEPT !.buf = @ \o <<0, 0>>,
                  !.pos = @ + 2,
                  !.seq_data_blocks = Append(@, block),
                  !.seq_fixups = Append(@, <<header_offset, block_idx>>)]

RECURSIVE _serialize_value_into_block(_, _, _)
RECURSIVE _serialize_model_into_block(_, _, _, _)

\* appends one element to the block: packed, no alignment
_serialize_value_into_block(block, v, annotation) ==
    IF annotation.k = "WireType"
    THEN block \o Pack(annotation.fmt, annotation.size, v)
    ELSE IF is_pydantic_model(annotation)
    THEN _serialize_model_into_block(block, v, annotation, 1)
    ELSE Append(block, IF v THEN 1 ELSE 0)

\* the loop over model_fields, from field i on
_serialize_model_into_block(block, model, model_type, i) ==
    IF i > Len(model_type.model_fields) THEN block
    ELSE _serialize_model_into_block(
             _serialize_value_into_block(block, model[i], model_type.model_fields[i]),
             model, model_type, i + 1)

\* the loop "for val in values" of _write_sequence, from element i on:
\* [block, first_elem_size]
RECURSIVE SequenceLoop(_, _, _, _, _)
SequenceLoop(block, first_elem_size, values, elem_annotation, i) ==
    IF i > Len(values) THEN [block |-> block, first_elem_size |-> first_elem_size]
    ELSE LET start == Len(block)
             b1 == _serialize_value_into_block(block, values[i], elem_annotation)
         IN SequenceLoop(b1,
                         IF first_elem_size = None THEN Len(b1) - start
                         ELSE first_elem_size,
                         values, elem_annotation, i + 1)

_write_sequence(s, values, elem_annotation) ==
    LET s1 == _write_padding(Ser_flush_bools(s), 2)
        header_offset == Len(s1.buf)
        s2 == [s1 EXCEPT !.buf = @ \o <<0, 0, 0, 0>>, !.pos = @ + 4]
        lp == SequenceLoop(<<>>, None, values, elem_annotation, 1)
        block == _pad_block(PackInt(Len(values), 4) \o lp.block)
        elem_byte_len == IF lp.first_elem_size = None THEN 0 ELSE lp.first_elem_size
        block_idx == Len(s2.seq_data_blocks)
    IN [s2 EXCEPT !.buf = PackIntoH(@, header_offset + 2, elem_byte_len),
                  !.seq_data_blocks = Append(@, block),
                  !.seq_fixups = Append(@, <<header_offset, block_idx>>)]

RECURSIVE _serialize_field(_, _, _)
RECURSIVE NestedLoop(_, _, _, _)

_serialize_field(s, v, annotation) ==
    IF annotation.k = "WireType"
    THEN _write_primitive(s, annotation.fmt, annotation.size, v)
    ELSE IF annotation.k = "bool" THEN _write_bool(s, v)
    ELSE IF annotation.k = "str" THEN _write_string(s, v)
    ELSE IF is_list_type(annotation)
    THEN _write_sequence(s, v, list_element_type(annotation))
    ELSE NestedLoop(s, v, annotation, 1)

\* the loop over the fields of an inline nested model, from field i on
NestedLoop(s, nested, annotation, i) ==
    IF i > Len(annotation.model_fields) THEN s
    ELSE NestedLoop(
             _serialize_field([s EXCEPT !.field_count = @ + 1],
                              nested[i], annotation.model_fields[i]),
             nested, annotation, i + 1)

\* one iteration of the loop of serialize_model
SerializeModelField(s, v, annotation) ==
    _serialize_field([s EXCEPT !.field_count = @ + 1], v, annotation)

RECURSIVE serialize_model(_, _, _, _)
serialize_model(s, model, model_fields, i) ==
    IF i > Len(model_fields) THEN s
    ELSE serialize_model(SerializeModelField(s, model[i], model_fields[i]),
                         model, model_fields, i + 1)

\* variant: data_offset is not advanced past the block
RECURSIVE FixupLoop_no_advance(_, _, _, _, _)
FixupLoop_no_advance(buf, fixups, blocks, data_offset, i) ==
    IF i > Len(fixups) THEN buf
    ELSE FixupLoop_no_advance(PackIntoH(buf, fixups[i][1], data_offset),
                              fixups, blocks, data_offset, i + 1)

\* the loop over seq_fixups of finalize, from fixup i on: the patched buf
RECURSIVE FixupLoop(_, _, _, _, _)
FixupLoop(buf, fixups, blocks, data_offset, i) ==
    IF i > Len(fixups) THEN buf
    ELSE LET header_offset == fixups[i][1]
             block == blocks[fixups[i][2] + 1]
         IN FixupLoop(PackIntoH(buf, header_offset, data_offset),
                      fixups, blocks, data_offset + Len(block), i + 1)

RECURSIVE Concat(_)
Concat(seqs) == IF seqs = <<>> THEN <<>> ELSE Head(seqs) \o Concat(Tail(seqs))

finalize(s) ==
    LET s1 == Ser_flush_bools(s)
        body_padded == Pad4(Len(s1.buf))
        s2 == IF s1.seq_data_blocks # <<>> /\ Len(s1.buf) < body_padded
              THEN [s1 EXCEPT !.buf = @ \o Zeros(body_padded - Len(s1.buf)),
                              !.pos = body_padded]
              ELSE s1
        body_len == Len(s2.buf)
        data_offset == s2.base_offset + body_len
        patched == FixupLoop(s2.buf, s2.seq_fixups, s2.seq_data_blocks, data_offset, 1)
    IN [s2 EXCEPT !.buf = patched \o Concat(s2.seq_data_blocks)]

(***************************************************************************)
(* deserializer.py: class Deserializer.  A read method is an operator from *)
(* the object before the call to [d, v]: the object after it and the value *)
(* returned.  d.err is TRUE once a read has raised (struct.error,          *)
(* IndexError, UnicodeDecodeError); the exception ends the whole call.     *)
(***************************************************************************)
DeserializerInit(data, pos) ==
    [data |-> data, pos |-> pos, bool_bit_pos |-> 0, bool_byte |-> None,
     in_seq_data |-> FALSE, message_byte_len |-> None, message_start |-> 0,
     err |-> FALSE]

with_message_context(data, body_start, message_byte_len) ==
    [DeserializerInit(data, body_start) EXCEPT !.message_byte_len = message_byte_len]

Raise(d) == [d |-> [d EXCEPT !.err = TRUE], v |-> <<>>]

\* struct.unpack_from raises unless the whole field lies inside the buffer
CanUnpack(data, pos, size) == pos >= 0 /\ pos + size <= Len(data)

\* variant: the alignment is the size itself, not capped at 4
_read_padding_uncapped(d, size) ==
    IF d.in_seq_data \/ size <= 1 THEN d
    ELSE LET rem == d.pos % size
         IN IF rem # 0 THEN [d EXCEPT !.pos = @ + (size - rem)] ELSE d

_read_padding(d, size) ==
    IF d.in_seq_data \/ size <= 1 THEN d
    ELSE LET align == IF size >= 8 THEN 4 ELSE size
             rem == d.pos % align
         IN IF rem # 0 THEN [d EXCEPT !.pos = @ + (align - rem)] ELSE d

De_flush_bools(d) == [d EXCEPT !.bool_bit_pos = 0, !.bool_byte = None]

_read_bool(d) ==
    IF d.bool_byte # None
    THEN LET v == Bit(d.bool_byte, d.bool_bit_pos) = 1
             d1 == [d EXCEPT !.bool_bit_pos = @ + 1]
         IN [d |-> IF d1.bool_bit_pos >= 8
                   THEN [d1 EXCEPT !.bool_bit_pos = 0, !.bool_byte = None]
                   ELSE d1,
             v |-> v]
    ELSE LET d1 == _read_padding(d, 1)
         IN IF d1.pos >= Len(d1.data) THEN Raise(d1)
            ELSE LET byte == d1.data[d1.pos + 1]
                 IN [d |-> [d1 EXCEPT !.pos = @ + 1,
                                      !.bool_bit_pos = 1,
                                      !.bool_byte = byte],
                     v |-> (byte % 2) = 1]

_read_primitive(d, fmt, size) ==
    LET d1 == _read_padding(De_flush_bools(d), size)
    IN IF ~CanUnpack(d1.data, d1.pos, size) THEN Raise(d1)
       ELSE [d |-> [d1 EXCEPT !.pos = @ + size],
             v |-> Unpack(fmt, size, d1.data, d1.pos)]

_read_string(d) ==
    LET d1 == _read_padding(De_flush_bools(d), 2)
    IN IF ~CanUnpack(d1.data, d1.pos, 2) THEN Raise(d1)
       ELSE LET index == Unpack("<H", 2, d1.data, d1.pos)
                d2 == [d1 EXCEPT !.pos = @ + 2]
                data_start == d2.message_start + index
            IN IF index = 0 THEN [d |-> d2, v |-> <<>>]
               ELSE IF ~CanUnpack(d2.data, data_start, 4) THEN Raise(d2)
               ELSE LET count == Unpack("<I", 4, d2.data, data_start)
                        bytes_start == data_start + 4
                        dec == Utf8Decode(Slice(d2.data, bytes_start, bytes_start + count))
                    IN IF dec.ok THEN [d |-> d2, v |-> dec.s] ELSE Raise(d2)

RECURSIVE _read_element_from_block(_, _, _)
RECURSIVE _read_model_from_block(_, _, _, _, _)

\* [ok, v, pos]: ok is FALSE where the read raises
_read_element_from_block(data, pos, annotation) ==
    IF annotation.k = "WireType"
    THEN IF CanUnpack(data, pos, annotation.size)
         THEN [ok |-> TRUE, v |-> Unpack(annotation.fmt, annotation.size, data, pos),
               pos |-> pos + annotation.size]
         ELSE [ok |-> FALSE, v |-> <<>>, pos |-> pos]
    ELSE IF is_pydantic_model(annotation)
    THEN _read_model_from_block(data, pos, annotation, 1, <<>>)
    ELSE IF pos < Len(data)
         THEN [ok |-> TRUE, v |-> (data[pos + 1] % 2) = 1, pos |-> pos + 1]
         ELSE [ok |-> FALSE, v |-> <<>>, pos |-> pos]

\* the loop over model_fields, from field i on, with the kwargs read so far
_read_model_from_block(data, pos, model_type, i, kwargs) ==
    IF i > Len(model_type.model_fields) THEN [ok |-> TRUE, v |-> kwargs, pos |-> pos]
    ELSE LET r == _read_element_from_block(data, pos, model_type.model_fields[i])
         IN IF r.ok
            THEN _read_model_from_block(data, r.pos, model_type, i + 1, Append(kwargs, r.v))
            ELSE [ok |-> FALSE, v |-> <<>>, pos |-> pos]

\* the loop "for _ in range(count)" of _read_sequence: [ok, v]
RECURSIVE ElementLoop(_, _, _, _, _)
ElementLoop(data, elem_pos, elem_annotation, remaining, result) ==
    IF remaining = 0 THEN [ok |-> TRUE, v |-> result]
    ELSE LET r == _read_element_from_block(data, elem_pos, elem_annotation)
         IN IF r.ok
            THEN ElementLoop(data, r.pos, elem_annotation, remaining - 1,
                             Append(result, r.v))
            ELSE [ok |-> FALSE, v |-> <<>>]

_read_sequence(d, elem_annotation) ==
    LET d1 == _read_padding(De_flush_bools(d), 2)
    IN IF ~CanUnpack(d1.data, d1.pos, 2) \/ ~CanUnpack(d1.data, d1.pos + 2, 2)
       THEN Raise(d1)
       ELSE LET index == Unpack("<H", 2, d1.data, d1.pos)
                elem_byte_len == Unpack("<H", 2, d1.data, d1.pos + 2)
                d2 == [d1 EXCEPT !.pos = @ + 4]
                data_start == d2.message_start + index
            IN IF index = 0 /\ elem_byte_len = 0 THEN [d |-> d2, v |-> <<>>]
               ELSE IF ~CanUnpack(d2.data, data_start, 4) THEN Raise(d2)
               ELSE LET count == Unpack("<I", 4, d2.data, data_start)
                        r == ElementLoop(d2.data, data_start + 4, elem_annotation,
                                         count, <<>>)
                    IN IF r.ok THEN [d |-> d2, v |-> r.v] ELSE Raise(d2)

_skip_to_message_end(d) ==
    IF d.message_byte_len # None
    THEN LET end == d.message_start + d.message_byte_len
         IN IF d.pos < end THEN [d EXCEPT !.pos = end] ELSE d
    ELSE d

RECURSIVE _deserialize_field(_, _)
RECURSIVE ModelLoop(_, _, _, _)

\* deserialize_model: the loop over the fields, then the jump to the end
deserialize_model(d, model_type) == ModelLoop(d, model_type, 1, <<>>)

_deserialize_field(d, annotation) ==
    IF annotation.k = "WireType"
    THEN _read_primitive(d, annotation.fmt, annotation.size)
    ELSE IF annotation.k = "bool" THEN _read_bool(d)
    ELSE IF annotation.k = "str" THEN _read_string(d)
    ELSE IF is_list_type(annotation)
    THEN _read_sequence(d, list_element_type(annotation))
    ELSE deserialize_model(d, annotation)

ModelLoop(d, model_type, i, kwargs) ==
    IF i > Len(model_type.model_fields)
    THEN [d |-> _skip_to_message_end(d), v |-> kwargs]
    ELSE LET r == _deserialize_field(d, model_type.model_fields[i])
         IN IF r.d.err THEN Raise(r.d)
            ELSE ModelLoop(r.d, model_type, i + 1, Append(kwargs, r.v))

(***************************************************************************)
(* header.py                                                               *)
(***************************************************************************)
MessageHeader(module_key, message_key, length, max_ordinal, tbd) ==
    [module_key |-> module_key, message_key |-> message_key, length |-> length,
     max_ordinal |-> max_ordinal, tbd |-> tbd]

\* struct.pack("<IHBB", module_message_key, length, max_ordinal, tbd) with
\* module_message_key = ((module_key & 0xFFFF) << 16) | (message_key & 0xFFFF):
\* the low half of the 32-bit word comes first, then the high half
MessageHeader_encode(h) ==
    PackInt(h.message_key % 65536, 2) \o PackInt(h.module_key % 65536, 2)
    \o PackInt(h.length, 2) \o PackInt(h.max_ordinal, 1) \o PackInt(h.tbd, 1)

\* encode_into(buf, offset): struct.pack_into over bytes offset .. offset + 8
MessageHeader_encode_into(h, buf, offset) ==
    [i \in 1..Len(buf) |->
        IF i > offset /\ i <= offset + HEADER_SIZE
        THEN MessageHeader_encode(h)[i - offset]
        ELSE buf[i]]

\* An optional header is a tuple: <<>> for None, <<h>> for the header h.
MessageHeader_decode(data, offset) ==
    IF Len(data) - offset < HEADER_SIZE THEN <<>>
    ELSE << MessageHeader(FromLE(SubSeq(data, offset + 3, offset + 4)),
                       FromLE(SubSeq(data, offset + 1, offset + 2)),
                       FromLE(SubSeq(data, offset + 5, offset + 6)),
                       data[offset + 7],
                       data[offset + 8]) >>

PacketHeader(length_words, crc) == [length_words |-> length_words, crc |-> crc]

PacketHeader_encode(h) ==
    PACKET_MAGIC \o PackInt(h.length_words, 2) \o PackInt(h.crc, 2)

\* variant: the magic is not compared
PacketHeader_decode_any_magic(data, offset) ==
    IF Len(data) - offset < PACKET_HEADER_SIZE THEN <<>>
    ELSE << PacketHeader(FromLE(SubSeq(data, offset + 5, offset + 6)),
                         FromLE(SubSeq(data, offset + 7, offset + 8))) >>

PacketHeader_decode(data, offset) ==
    IF Len(data) - offset < PACKET_HEADER_SIZE THEN <<>>
    ELSE IF SubSeq(data, offset + 1, offset + 4) # PACKET_MAGIC THEN <<>>
    ELSE << PacketHeader(FromLE(SubSeq(data, offset + 5, offset + 6)),
                         FromLE(SubSeq(data, offset + 7, offset + 8))) >>

(***************************************************************************)
(* crc.py                                                                  *)
(***************************************************************************)
\* x ^ p for p a power of two: bit p of x is inverted
XorBit(x, p) == IF (x \div p) % 2 = 1 THEN x - p ELSE x + p

\* x ^ 0x1021, and 0x1021 = 4096 + 32 + 1
XorPoly(x) == XorBit(XorBit(XorBit(x, 1), 32), 4096)

\* variant: the polynomial is never applied
CrcRound_shift_only(crc) == (crc * 2) % 65536

\* one round of the inner loop "for _ in range(8)"
CrcRound(crc) ==
    IF (crc \div 32768) % 2 = 1
    THEN XorPoly(crc * 2) % 65536
    ELSE (crc * 2) % 65536

\* variant: the byte goes into the low half, crc ^= byte
CrcByte_low_byte(crc, byte) ==
    CrcRound(CrcRound(CrcRound(CrcRound(
    CrcRound(CrcRound(CrcRound(CrcRound(
        (crc \div 256) * 256 + Xor(crc % 256, byte)))))))))

\* one iteration of the outer loop: crc ^= byte << 8, then the eight rounds
CrcByte(crc, byte) ==
    CrcRound(CrcRound(CrcRound(CrcRound(
    CrcRound(CrcRound(CrcRound(CrcRound(
        Xor(crc \div 256, byte) * 256 + (crc % 256)))))))))

\* the outer loop "for byte in data", from byte i on.  crc is a 16-bit value
\* at the head of every iteration (testing it here also makes TLC evaluate
\* it before the next iteration rather than at the end of the loop).
RECURSIVE CrcLoop(_, _, _)
CrcLoop(crc, data, i) ==
    IF i > Len(data) \/ crc \notin 0..65535 THEN crc
    ELSE CrcLoop(CrcByte(crc, data[i]), data, i + 1)

crc16_ccitt(data) == CrcLoop(65535, data, 1)

(***************************************************************************)
(* codec.py                                                                *)
(***************************************************************************)
\* serialize(model): Serializer(), serialize_model, finalize
serialize(model, model_fields) ==
    finalize(serialize_model(SerializerInit, model, model_fields, 1)).buf

\* variant: the message is not padded to a whole number of words
FrameMessage_unpadded(s, module_key, message_key) ==
    LET body == finalize(s).buf
        total_bytes == HEADER_SIZE + Len(body)
        hdr == MessageHeader(module_key, message_key, total_bytes \div 4,
                             s.field_count + HEADER_FIELD_COUNT - 1, 0)
    IN MessageHeader_encode(hdr) \o body

\* the part of serialize_message after serialize_model: from the serializer
\* that holds the written head to the framed message
FrameMessage(s, module_key, message_key) ==
    LET field_count == s.field_count
        body == finalize(s).buf
        total_bytes == HEADER_SIZE + Len(body)
        padded_bytes == Pad4(total_bytes)
        length_words == padded_bytes \div 4
        max_ordinal == field_count + HEADER_FIELD_COUNT - 1
        hdr == MessageHeader(module_key, message_key, length_words, max_ordinal, 0)
        result == MessageHeader_encode_into(hdr, Zeros(padded_bytes), 0)
    IN [i \in 1..padded_bytes |->
           IF i > HEADER_SIZE /\ i <= HEADER_SIZE + Len(body)
           THEN body[i - HEADER_SIZE]
           ELSE result[i]]

serialize_message(model, model_fields, module_key, message_key) ==
    FrameMessage(serialize_model(set_base_offset(SerializerInit, HEADER_SIZE),
                                 model, model_fields, 1),
                 module_key, message_key)

empty_message(module_key, message_key) ==
    MessageHeader_encode(MessageHeader(module_key, message_key, HEADER_SIZE \div 4,
                                       HEADER_FIELD_COUNT - 1, 0))

\* variant: length_words is computed from the unpadded length
serialize_packet_short_length(msgs) ==
    LET message_data == Concat(msgs)
        total_bytes == PACKET_HEADER_SIZE + Len(message_data)
        padded_data == message_data \o Zeros(Pad4(total_bytes) - total_bytes)
    IN PacketHeader_encode(PacketHeader(total_bytes \div 4, crc16_ccitt(padded_data)))
       \o padded_data

serialize_packet(msgs) ==
    LET message_data == Concat(msgs)
        total_bytes == PACKET_HEADER_SIZE + Len(message_data)
        padded_bytes == Pad4(total_bytes)
        length_words == padded_bytes \div 4
        padded_data ==
            IF Len(message_data) < padded_bytes - PACKET_HEADER_SIZE
            THEN message_data
                 \o Zeros(padded_bytes - PACKET_HEADER_SIZE - Len(message_data))
            ELSE message_data
        crc == crc16_ccitt(padded_data)
    IN PacketHeader_encode(PacketHeader(length_words, crc)) \o padded_data

\* variant: the loop runs while offset + HEADER_SIZE < total_bytes
RECURSIVE MessageWalk_strict(_, _, _, _)
MessageWalk_strict(data, offset, total_bytes, msgs) ==
    IF ~(offset + HEADER_SIZE < total_bytes) THEN [err |-> "", messages |-> msgs]
    ELSE LET msg_byte_len == MessageHeader_decode(data, offset)[1].length * 4
             msg_end == offset + msg_byte_len
         IN IF msg_byte_len < HEADER_SIZE THEN [err |-> "", messages |-> msgs]
            ELSE IF msg_end > total_bytes
            THEN [err |-> "Unexpected EOF: message extends beyond packet",
                  messages |-> <<>>]
            ELSE MessageWalk_strict(data, msg_end, total_bytes,
                                    Append(msgs, Slice(data, offset, msg_end)))

\* variant: a message that extends beyond the packet ends the loop
RECURSIVE MessageWalk_lenient(_, _, _, _)
MessageWalk_lenient(data, offset, total_bytes, msgs) ==
    IF ~(offset + HEADER_SIZE <= total_bytes) THEN [err |-> "", messages |-> msgs]
    ELSE LET msg_byte_len == MessageHeader_decode(data, offset)[1].length * 4
             msg_end == offset + msg_byte_len
         IN IF msg_byte_len < HEADER_SIZE \/ msg_end > total_bytes
            THEN [err |-> "", messages |-> msgs]
            ELSE MessageWalk_lenient(data, msg_end, total_bytes,
                                     Append(msgs, Slice(data, offset, msg_end)))

\* variant: a header whose length is below the header size is an error
RECURSIVE MessageWalk_no_padding(_, _, _, _)
MessageWalk_no_padding(data, offset, total_bytes, msgs) ==
    IF ~(offset + HEADER_SIZE <= total_bytes) THEN [err |-> "", messages |-> msgs]
    ELSE LET msg_byte_len == MessageHeader_decode(data, offset)[1].length * 4
             msg_end == offset + msg_byte_len
         IN IF msg_byte_len < HEADER_SIZE \/ msg_end > total_bytes
            THEN [err |-> "Unexpected EOF: message extends beyond packet",
                  messages |-> <<>>]
            ELSE MessageWalk_no_padding(data, msg_end, total_bytes,
                                        Append(msgs, Slice(data, offset, msg_end)))

\* variant: the walk runs to the end of the buffer, not to total_bytes
RECURSIVE MessageWalk_to_end(_, _, _, _)
MessageWalk_to_end(data, offset, total_bytes, msgs) ==
    IF ~(offset + HEADER_SIZE <= Len(data)) THEN [err |-> "", messages |-> msgs]
    ELSE LET msg_header == MessageHeader_decode(data, offset)
         IN IF msg_header = <<>> THEN [err |-> "", messages |-> msgs]
            ELSE LET msg_byte_len == msg_header[1].length * 4
                     msg_end == offset + msg_byte_len
                 IN IF msg_byte_len < HEADER_SIZE THEN [err |-> "", messages |-> msgs]
                    ELSE IF msg_end > Len(data)
                    THEN [err |-> "Unexpected EOF: message extends beyond packet",
                          messages |-> <<>>]
                    ELSE MessageWalk_to_end(data, msg_end, total_bytes,
                                            Append(msgs, Slice(data, offset, msg_end)))

\* the while loop of deserialize_packet from cursor offset on, with the
\* messages appended so far: [err, messages]
RECURSIVE MessageWalk(_, _, _, _)
MessageWalk(data, offset, total_bytes, msgs) ==
    IF ~(offset + HEADER_SIZE <= total_bytes) THEN [err |-> "", messages |-> msgs]
    ELSE LET msg_header == MessageHeader_decode(data, offset)
         IN IF msg_header = <<>> THEN [err |-> "", messages |-> msgs]
            ELSE LET msg_byte_len == msg_header[1].length * 4
                     msg_end == offset + msg_byte_len
                 IN IF msg_byte_len < HEADER_SIZE THEN [err |-> "", messages |-> msgs]
                    ELSE IF msg_end > total_bytes
                    THEN [err |-> "Unexpected EOF: message extends beyond packet",
                          messages |-> <<>>]
                    ELSE MessageWalk(data, msg_end, total_bytes,
                                     Append(msgs, Slice(data, offset, msg_end)))

\* variant: the length is never checked
PacketTooShort_never(data, total_bytes) == FALSE

\* the length check of deserialize_packet: len(data) < total_bytes
PacketTooShort(data, total_bytes) == Len(data) < total_bytes

\* [err, header, messages]; err is "" on return, else the ValueError raised
deserialize_packet(data) ==
    LET decoded_header == PacketHeader_decode(data, 0)
        pkt_header == decoded_header[1]
    IN IF decoded_header = <<>>
       THEN [err |-> "Invalid packet header (missing or bad magic)",
             header |-> <<>>, messages |-> <<>>]
       ELSE LET total_bytes == pkt_header.length_words * 4
            IN IF PacketTooShort(data, total_bytes)
               THEN [err |-> "Unexpected EOF: packet data too short",
                     header |-> <<>>, messages |-> <<>>]
               ELSE LET message_data == Slice(data, PACKET_HEADER_SIZE, total_bytes)
                        expected_crc == crc16_ccitt(message_data)
                    IN IF pkt_header.crc # expected_crc
                       THEN [err |-> "CRC mismatch", header |-> <<>>,
                             messages |-> <<>>]
                       ELSE LET w == MessageWalk(data, PACKET_HEADER_SIZE,
                                                 total_bytes, <<>>)
                            IN [err |-> w.err,
                                header |-> IF w.err = "" THEN <<pkt_header>> ELSE <<>>,
                                messages |-> w.messages]

(***************************************************************************)
(* Inputs.  A field of a record is drawn from FieldTable: an annotation    *)
(* and a value conforming to it.  A string is the tuple of its code        *)
(* points, a list the tuple of its elements, a model the tuple of its      *)
(* field values, a float the bit pattern of its IEEE-754 encoding.         *)
(***************************************************************************)
Inner == ModelT(<<UInt32>>)
Flags == ModelT(<<BoolT, UInt16>>)
Point == ModelT(<<UInt8, BoolT, Int16>>)
Switch == ModelT(<<UInt8, BoolT>>)

FieldTable ==
    << [ann |-> UInt8, val |-> 171],
       [ann |-> UInt16, val |-> 4660],
       [ann |-> Int16, val |-> -2],
       [ann |-> UInt32, val |-> 16909060],
       [ann |-> UInt64, val |-> 287454020],
       [ann |-> Float32, val |-> 1102839808],
       [ann |-> BoolT, val |-> TRUE],
       [ann |-> BoolT, val |-> FALSE],
       [ann |-> StrT, val |-> <<>>],
       [ann |-> StrT, val |-> <<65, 233, 122>>],
       [ann |-> ListT(UInt16), val |-> <<>>],
       [ann |-> ListT(UInt16), val |-> <<1023, 2047, 4095>>],
       [ann |-> ListT(BoolT), val |-> <<TRUE, FALSE, TRUE>>],
       [ann |-> ListT(Point), val |-> << <<7, TRUE, -300>>, <<9, FALSE, 5>> >>],
       [ann |-> Inner, val |-> <<42>>],
       [ann |-> Flags, val |-> <<TRUE, 513>>] >>

\* records of more fields than MaxFields: the records of the test suite
\* (SensorReading, DeviceStatusU16Readings, BoolPack, AllBools plus one, a
\* record with nested records, AllBools), and a record whose nested record
\* ends in a bool
FixedInputs ==
    << [schema |-> <<UInt32, Float32, UInt16, BoolT, BoolT>>,
        value |-> <<42, 1102839808, 65, TRUE, FALSE>>],
       [schema |-> <<UInt32, StrT, ListT(UInt16), BoolT, BoolT>>,
        value |-> <<100, <<115, 101, 110, 115, 111, 114>>, <<1023, 2047, 4095>>,
                    TRUE, FALSE>>],
       [schema |-> <<BoolT, BoolT, BoolT, UInt16, BoolT>>,
        value |-> <<TRUE, FALSE, TRUE, 4660, TRUE>>],
       [schema |-> <<BoolT, BoolT, BoolT, BoolT, BoolT, BoolT, BoolT, BoolT, BoolT>>,
        value |-> <<TRUE, FALSE, TRUE, FALSE, TRUE, TRUE, FALSE, TRUE, TRUE>>],
       [schema |-> <<UInt8, Flags, BoolT, Inner, StrT, UInt8>>,
        value |-> <<1, <<TRUE, 513>>, TRUE, <<42>>, <<65>>, 2>>],
       [schema |-> <<BoolT, BoolT, BoolT, BoolT, BoolT, BoolT, BoolT, BoolT>>,
        value |-> <<TRUE, FALSE, TRUE, FALSE, TRUE, TRUE, FALSE, TRUE>>],
       [schema |-> <<Switch, BoolT>>,
        value |-> << <<7, TRUE>>, TRUE >>] >>

KeyChoices == { <<1, 66>>, <<65535, 0>>, <<258, 65535>> }

\* the input is record number g of FixedInputs, or the record whose n fields
\* are the entries f[1] .. f[n] of FieldTable
IsInput(sch, val) ==
    \/ \E g \in 1..Len(FixedInputs) :
          sch = FixedInputs[g].schema /\ val = FixedInputs[g].value
    \/ \E n \in 1..MaxFields : \E f \in [1..n -> 1..Len(FieldTable)] :
          /\ sch = [i \in 1..n |-> FieldTable[f[i]].ann]
          /\ val = [i \in 1..n |-> FieldTable[f[i]].val]

NoResult == [err |-> "", header |-> <<>>, messages |-> <<>>]

(***************************************************************************)
(* The record codec, driven one top-level field at a time: serialize (or   *)
(* serialize_message) of the input, then deserialize (or                   *)
(* deserialize_message) of the bytes it returned.                          *)
(***************************************************************************)
Init ==
    /\ \/ /\ IsInput(schema, value)
          /\ \/ mode = "standalone" /\ keys = <<0, 0>>
             \/ mode = "message" /\ keys \in KeyChoices
          /\ pc = "serialize_model"
       \/ /\ mode = "empty"
          /\ schema = <<>>
          /\ value = <<>>
          /\ keys \in KeyChoices
          /\ pc = "empty_message"
    /\ idx = 1
    /\ ser = IF mode = "message" THEN set_base_offset(SerializerInit, HEADER_SIZE)
             ELSE SerializerInit
    /\ out = <<>>
    /\ de = DeserializerInit(<<>>, 0)
    /\ header = <<>>
    /\ decoded = <<>>
    /\ messages = <<>>
    /\ pkt = <<>>
    /\ touched = {}
    /\ res = NoResult

\* serialize_model: one iteration of the loop over the fields
SerializeStep ==
    /\ pc = "serialize_model"
    /\ idx <= Len(schema)
    /\ ser' = SerializeModelField(ser, value[idx], schema[idx])
    /\ idx' = idx + 1
    /\ UNCHANGED <<pc, mode, schema, value, keys, out, de, header, decoded>>
    /\ UNCHANGED packetVars

\* the rest of serialize / serialize_message: finalize, then the framing
Finalize ==
    /\ pc = "serialize_model"
    /\ idx > Len(schema)
    /\ ser' = finalize(ser)
    /\ out' = IF mode = "message" THEN FrameMessage(ser, keys[1], keys[2])
              ELSE finalize(ser).buf
    /\ pc' = "serialized"
    /\ UNCHANGED <<mode, schema, value, keys, idx, de, header, decoded>>
    /\ UNCHANGED packetVars

\* empty_message(module_key, message_key)
EmptyMessage ==
    /\ pc = "empty_message"
    /\ out' = empty_message(keys[1], keys[2])
    /\ pc' = "serialized"
    /\ UNCHANGED <<mode, schema, value, keys, idx, ser, de, header, decoded>>
    /\ UNCHANGED packetVars

\* deserialize / deserialize_message up to the call of deserialize_model
BeginDeserialize ==
    /\ pc = "serialized"
    /\ IF mode \in {"message", "empty"}
       THEN LET h == MessageHeader_decode(out, 0)
            IN IF h = <<>>
               THEN /\ pc' = "raised"
                    /\ UNCHANGED <<de, header>>
               ELSE /\ de' = with_message_context(out, HEADER_SIZE, h[1].length * 4)
                    /\ header' = h
                    /\ pc' = "deserialize_model"
       ELSE /\ de' = DeserializerInit(out, 0)
            /\ pc' = "deserialize_model"
            /\ UNCHANGED header
    /\ idx' = 1
    /\ UNCHANGED <<mode, schema, value, keys, ser, out, decoded>>
    /\ UNCHANGED packetVars

\* deserialize_model: one iteration of the loop over the fields
DeserializeStep ==
    /\ pc = "deserialize_model"
    /\ idx <= Len(schema)
    /\ LET r == _deserialize_field(de, schema[idx])
       IN /\ de' = r.d
          /\ IF r.d.err
             THEN pc' = "raised" /\ UNCHANGED <<idx, decoded>>
             ELSE /\ decoded' = Append(decoded, r.v)
                  /\ idx' = idx + 1
                  /\ UNCHANGED pc
    /\ UNCHANGED <<mode, schema, value, keys, ser, out, header>>
    /\ UNCHANGED packetVars

\* the end of the top-level deserialize_model: the jump to the message end
EndDeserialize ==
    /\ pc = "deserialize_model"
    /\ idx > Len(schema)
    /\ de' = _skip_to_message_end(de)
    /\ pc' = "returned"
    /\ UNCHANGED <<mode, schema, value, keys, idx, ser, out, header, decoded>>
    /\ UNCHANGED packetVars

Next ==
    \/ SerializeStep
    \/ Finalize
    \/ EmptyMessage
    \/ BeginDeserialize
    \/ DeserializeStep
    \/ EndDeserialize

Spec == Init /\ [][Next]_vars

(***************************************************************************)
(* Packet framing: serialize_packet of a list of byte strings, then        *)
(* deserialize_packet of the packet, or of the packet after its bytes have *)
(* been changed (a bit inverted, header fields overwritten, the tail cut   *)
(* off).                                                                   *)
(***************************************************************************)
\* the byte strings handed to serialize_packet: messages made by
\* empty_message and serialize_message, and byte strings that are no
\* well-formed messages (3 bytes; a header that declares 4 words with only
\* 2 present; a header that declares 1 word; 8 zero bytes; 4 zero bytes)
MessagePool ==
    << empty_message(1, 2),
       serialize_message(<<1>>, <<UInt32>>, 1, 1),
       serialize_message(<<TRUE, <<65>>>>, <<BoolT, StrT>>, 258, 3),
       <<1, 2, 3>>,
       MessageHeader_encode(MessageHeader(1, 1, 4, 3, 0)),
       MessageHeader_encode(MessageHeader(1, 1, 1, 3, 0)),
       Zeros(8),
       Zeros(4) >>

\* the entries of MessagePool that are well-formed messages
WellFormed == 1..3

InitPacket ==
    /\ mode = "packet"
    /\ pc = "serialize_packet"
    /\ \E n \in 0..MaxMessages : \E f \in [1..n -> 1..Len(MessagePool)] :
          messages = [i \in 1..n |-> MessagePool[f[i]]]
    /\ pkt = <<>>
    /\ touched = {}
    /\ res = NoResult
    /\ schema = <<>>
    /\ value = <<>>
    /\ keys = <<0, 0>>
    /\ idx = 1
    /\ ser = SerializerInit
    /\ out = <<>>
    /\ de = DeserializerInit(<<>>, 0)
    /\ header = <<>>
    /\ decoded = <<>>

SerializePacket ==
    /\ pc = "serialize_packet"
    /\ pkt' = serialize_packet(messages)
    /\ pc' = "packet"
    /\ UNCHANGED <<mode, messages, touched, res>>
    /\ UNCHANGED codecVars

SetBytes(data, offset, bytes) ==
    [i \in 1..Len(data) |->
        IF i > offset /\ i <= offset + Len(bytes) THEN bytes[i - offset] ELSE data[i]]

\* one bit of the message region is inverted
FlipBit ==
    /\ pc = "packet"
    /\ touched = {}
    /\ \E i \in PACKET_HEADER_SIZE..(Len(pkt) - 1) : \E k \in 0..7 :
          pkt' = [pkt EXCEPT ![i + 1] = XorBit(@, Pow2(k))]
    /\ touched' = {"bit"}
    /\ UNCHANGED <<pc, mode, messages, res>>
    /\ UNCHANGED codecVars

\* the length field (bytes 4..6) is overwritten with another value
SetLength ==
    /\ pc = "packet"
    /\ touched = {}
    /\ LET cur == FromLE(SubSeq(pkt, 5, 6))
       IN \E w \in {cur + 1, cur - 1, 0} \ {cur, -1} :
             pkt' = SetBytes(pkt, 4, PackInt(w, 2))
    /\ touched' = touched \cup {"length"}
    /\ UNCHANGED <<pc, mode, messages, res>>
    /\ UNCHANGED codecVars

\* the CRC field (bytes 6..8) is overwritten with another value
SetCrc ==
    /\ pc = "packet"
    /\ touched \subseteq {"length"}
    /\ LET cur == FromLE(SubSeq(pkt, 7, 8))
       IN \E c \in {0, 65535, XorBit(cur, 256)} \ {cur} :
             pkt' = SetBytes(pkt, 6, PackInt(c, 2))
    /\ touched' = touched \cup {"crc"}
    /\ UNCHANGED <<pc, mode, messages, res>>
    /\ UNCHANGED codecVars

\* the buffer is cut to its first n bytes
Truncate ==
    /\ pc = "packet"
    /\ touched \subseteq {"length", "crc"}
    /\ \E n \in {3, 6, 8, Len(pkt) - 1} : n < Len(pkt) /\ pkt' = SubSeq(pkt, 1, n)
    /\ touched' = touched \cup {"cut"}
    /\ UNCHANGED <<pc, mode, messages, res>>
    /\ UNCHANGED codecVars

\* one byte of the magic (bytes 0..4) is overwritten with another value
SetMagic ==
    /\ pc = "packet"
    /\ touched \subseteq {"length", "crc", "cut"}
    /\ \E i \in 0..Min(3, Len(pkt) - 1) :
          pkt' = [pkt EXCEPT ![i + 1] = 255 - @]
    /\ touched' = touched \cup {"magic"}
    /\ UNCHANGED <<pc, mode, messages, res>>
    /\ UNCHANGED codecVars

\* the packet is followed by more bytes of the stream: a zero byte, a byte
\* string that reads as a message, the start of another packet
AppendTrailing ==
    /\ pc = "packet"
    /\ touched = {}
    /\ \E t \in {<<0>>, empty_message(1, 2), PACKET_MAGIC \o <<4, 0, 1, 2>>} :
          pkt' = pkt \o t
    /\ touched' = {"trailing"}
    /\ UNCHANGED <<pc, mode, messages, res>>
    /\ UNCHANGED codecVars

DeserializePacket ==
    /\ pc = "packet"
    /\ res' = deserialize_packet(pkt)
    /\ pc' = "deserialize_packet"
    /\ UNCHANGED <<mode, messages, pkt, touched>>
    /\ UNCHANGED codecVars

NextPacket ==
    \/ SerializePacket
    \/ FlipBit
    \/ SetLength
    \/ SetCrc
    \/ Truncate
    \/ SetMagic
    \/ AppendTrailing
    \/ DeserializePacket

SpecPacket == InitPacket /\ [][NextPacket]_vars

(***************************************************************************)
(* Properties.                                                             *)
(***************************************************************************)
Returned == pc = "returned"
Ended == pc \in {"returned", "raised"}

\* C1: standalone round trip.  deserialize(serialize(v), S) returns, and
\* the value it returns equals v field by field; while it runs, the fields
\* decoded so far are the first fields of v.
C1_StandaloneRoundTrip ==
    mode = "standalone" =>
        /\ pc # "raised"
        /\ Len(decoded) <= Len(value)
        /\ \A i \in 1..Len(decoded) : decoded[i] = value[i]
        /\ Returned => Len(decoded) = Len(value)

\* a record with a string, a list of records and an inline nested record
\* followed by further fields has been through serialize and deserialize
C1_Witness ==
    /\ mode = "standalone"
    /\ Returned
    /\ Len(schema) = 3
    /\ schema[1].k = "model"
    /\ schema[2].k = "list"
    /\ schema[3].k = "str"
    /\ Len(value[2]) > 0
    /\ Len(value[3]) > 0
    /\ decoded = value

\* C2: message round trip.  deserialize_message(serialize_message(v, module_key,
\* message_key), S) returns the header with the same keys and a body equal
\* to v, also when an inline nested record is followed by further fields.
C2_MessageRoundTrip ==
    (mode = "message" /\ Ended) =>
        /\ Returned
        /\ header[1].module_key = keys[1]
        /\ header[1].message_key = keys[2]
        /\ decoded = value

AllWellFormed == \A i \in 1..Len(messages) : \E j \in WellFormed : messages[i] = MessagePool[j]

Unpacked == pc = "deserialize_packet"

\* C3: packet round trip.  For a list of messages made by serialize_message
\* or empty_message, deserialize_packet(serialize_packet(ms)) returns and
\* its message list equals ms.
C3_PacketRoundTrip ==
    (Unpacked /\ touched = {} /\ AllWellFormed) =>
        /\ res.err = ""
        /\ res.messages = messages
        /\ res.header = <<PacketHeader(Len(pkt) \div 4, crc16_ccitt(Concat(messages)))>>

\* two different messages, one of them a bare header, went through a packet
C3_Witness ==
    /\ Unpacked
    /\ touched = {}
    /\ AllWellFormed
    /\ Len(messages) = 2
    /\ messages[1] # messages[2]
    /\ messages[2] = MessagePool[1]
    /\ res.messages = messages

\* C4: message header consistency.  For every message m returned by
\* serialize_message or empty_message, the length field at bytes 4..6 times 4
\* is len(m), len(m) is a multiple of 4 and at least 8, and the bytes after
\* the body are zero.
C4_MessageHeaderConsistency ==
    (mode \in {"message", "empty"} /\ pc \notin {"serialize_model", "empty_message"}) =>
        /\ Len(out) >= HEADER_SIZE
        /\ FromLE(SubSeq(out, 5, 6)) * 4 = Len(out)
        /\ Len(out) % 4 = 0
        /\ \A i \in (HEADER_SIZE + Len(ser.buf) + 1)..Len(out) : out[i] = 0

\* a message without data blocks, padded after its body
C4_Witness ==
    /\ mode = "message"
    /\ pc = "serialized"
    /\ ser.seq_data_blocks = <<>>
    /\ Len(out) > HEADER_SIZE + Len(ser.buf)

\* a message with data blocks
C4_WitnessBlocks ==
    /\ mode = "message"
    /\ pc = "serialized"
    /\ Len(ser.seq_data_blocks) = 2

\* C5: packet header consistency.  Every packet p returned by
\* serialize_packet starts with the magic, len(p) is a multiple of 4, and
\* the length_words field at bytes 4..6 times 4 is len(p).
C5_PacketHeaderConsistency ==
    (mode = "packet" /\ pc # "serialize_packet" /\ touched = {}) =>
        /\ Len(pkt) >= PACKET_HEADER_SIZE
        /\ SubSeq(pkt, 1, 4) = PACKET_MAGIC
        /\ Len(pkt) % 4 = 0
        /\ FromLE(SubSeq(pkt, 5, 6)) * 4 = Len(pkt)

\* a packet of byte strings whose total length is no multiple of 4
C5_Witness ==
    /\ pc = "packet"
    /\ touched = {}
    /\ Len(messages) = 2
    /\ Len(Concat(messages)) % 4 # 0

\* the packet of the empty list
C5_WitnessEmpty ==
    /\ pc = "packet"
    /\ touched = {}
    /\ messages = <<>>
    /\ Len(pkt) = PACKET_HEADER_SIZE

\* C6: CRC fidelity.  After one bit of the message region of a packet has
\* been inverted, or its CRC field has been changed, deserialize_packet
\* fails with the CRC mismatch error and returns no message.
C6_CrcFidelity ==
    (Unpacked /\ touched \in {{"bit"}, {"crc"}}) =>
        /\ res.err = "CRC mismatch"
        /\ res.messages = <<>>

\* a bit was inverted in the first message of a packet of two messages
C6_Witness ==
    /\ Unpacked
    /\ touched = {"bit"}
    /\ Len(messages) = 2
    /\ AllWellFormed
    /\ SubSeq(pkt, 9, 8 + Len(messages[1])) # messages[1]
    /\ res.err # ""

\* the CRC field was changed
C6_WitnessCrcField ==
    /\ Unpacked
    /\ touched = {"crc"}
    /\ Len(messages) > 0
    /\ res.err # ""

BadMagicError == "Invalid packet header (missing or bad magic)"
TruncatedError == "Unexpected EOF: packet data too short"

\* C7: bad magic.  For every buffer whose first four bytes are not the
\* magic, deserialize_packet fails with the invalid-packet-header error,
\* whatever the length field, the CRC field and the length of the buffer.
C7_BadMagic ==
    (Unpacked /\ Slice(pkt, 0, 4) # PACKET_MAGIC) =>
        /\ res.err = BadMagicError
        /\ res.messages = <<>>

\* the magic is wrong, and so are the length field and the CRC field
C7_Witness ==
    /\ Unpacked
    /\ touched = {"length", "crc", "magic"}
    /\ Len(pkt) < FromLE(SubSeq(pkt, 5, 6)) * 4
    /\ res.err = BadMagicError

\* C8: truncated packet.  Every buffer with the magic and fewer bytes than
\* length_words * 4 fails with the truncated error and returns no message,
\* whatever the CRC field contains.  (A buffer of 6 or 7 bytes holds the
\* magic and the length field; PacketHeader.decode refuses it.)
C8_TruncatedAnyLength ==
    (/\ Unpacked
     /\ Len(pkt) >= 6
     /\ SubSeq(pkt, 1, 4) = PACKET_MAGIC
     /\ Len(pkt) < FromLE(SubSeq(pkt, 5, 6)) * 4) =>
        /\ res.err = TruncatedError
        /\ res.messages = <<>>

\* C8 for buffers that hold the whole packet header: every buffer of at
\* least 8 bytes with the magic and fewer bytes than length_words * 4 fails
\* with the truncated error, whatever the CRC field contains.
C8_Truncated ==
    (/\ Unpacked
     /\ Len(pkt) >= PACKET_HEADER_SIZE
     /\ SubSeq(pkt, 1, 4) = PACKET_MAGIC
     /\ Len(pkt) < FromLE(SubSeq(pkt, 5, 6)) * 4) =>
        /\ res.err = TruncatedError
        /\ res.messages = <<>>

\* a packet with a changed CRC field was cut short
C8_Witness ==
    /\ Unpacked
    /\ touched = {"crc", "cut"}
    /\ Len(pkt) > PACKET_HEADER_SIZE
    /\ res.err = TruncatedError

OverlongLast ==
    /\ Len(messages) >= 1
    /\ messages[Len(messages)] = MessagePool[5]
    /\ \A i \in 1..(Len(messages) - 1) : \E j \in WellFormed : messages[i] = MessagePool[j]

\* C9: overlong inner message.  When the message walk comes to a header
\* that declares more bytes than the packet has left, deserialize_packet
\* fails and returns no message, not even those before that header.
C9_OverlongInner ==
    (Unpacked /\ touched = {} /\ OverlongLast) =>
        /\ res.err = "Unexpected EOF: message extends beyond packet"
        /\ res.messages = <<>>
        /\ res.header = <<>>

\* a well-formed message came before the overlong one
C9_Witness ==
    /\ Unpacked
    /\ touched = {}
    /\ OverlongLast
    /\ Len(messages) = 2
    /\ res.err # ""

\* C10: max_ordinal.  Byte 6 of every message is the number of top-level
\* fields of the body record plus 2; the fields of an inline nested record
\* are not counted in addition.  For empty_message it is 2.
C10_MaxOrdinal ==
    (mode \in {"message", "empty"} /\ pc = "serialized") =>
        out[7] = Len(schema) + 2

AllBools == \A i \in 1..Len(schema) : schema[i] = BoolT

\* C11: bool compaction.  A record of N >= 1 bool fields and nothing else
\* serializes to (N + 7) \div 8 bytes; field i (from 0) is bit i % 8 of byte
\* i \div 8, and the unused high bits of the last byte are 0.
C11_BoolCompaction ==
    (pc = "serialized" /\ mode \in {"standalone", "message"} /\ AllBools) =>
        LET N == Len(schema)
        IN /\ Len(ser.buf) = (N + 7) \div 8
           /\ mode = "standalone" => out = ser.buf
           /\ mode = "message" => Slice(out, HEADER_SIZE, HEADER_SIZE + Len(ser.buf)) = ser.buf
           /\ \A i \in 0..(N - 1) :
                 (Bit(ser.buf[(i \div 8) + 1], i % 8) = 1) = value[i + 1]
           /\ \A k \in 0..7 :
                 k >= N - 8 * (Len(ser.buf) - 1) => Bit(ser.buf[Len(ser.buf)], k) = 0

\* nine bools went into two bytes
C11_Witness ==
    /\ pc = "serialized"
    /\ mode = "standalone"
    /\ AllBools
    /\ Len(schema) = 9
    /\ out = <<181, 1>>

\* eight bools went into one byte
C11_WitnessEight ==
    /\ pc = "serialized"
    /\ mode = "standalone"
    /\ AllBools
    /\ Len(schema) = 8
    /\ out = <<181>>

\* a head write that is neither a bool nor an inline record
EndsRun(annotation) == annotation.k \in {"WireType", "str", "list"}

\* the bytes of buf that a step may change: those of the running bool byte
KeepsEndedBytes(s, t) ==
    /\ Len(t.buf) >= Len(s.buf)
    /\ \A i \in 1..Len(s.buf) :
          i # s.bool_byte_offset + 1 => t.buf[i] = s.buf[i]

\* C12: bool run termination.  A scalar, string or sequence written to the
\* head ends the bool run; the next bool goes to a fresh byte appended to
\* the head, its value in bit 0; no write changes a byte written before,
\* other than the byte of the run that is still open.  The reader ends its
\* run at the same places, so that bool,bool,bool,u16,bool is
\* [packed byte, pad, u16 lo, u16 hi, bool byte].
C12_BoolRunTermination ==
    [][ /\ SerializeStep =>
            /\ KeepsEndedBytes(ser, ser')
            /\ EndsRun(schema[idx]) =>
                  /\ ser'.bool_byte_offset = None
                  /\ ser'.bool_bit_pos = 0
                  /\ SubSeq(ser'.buf, 1, Len(ser.buf)) = ser.buf
            /\ (schema[idx] = BoolT /\ ser.bool_byte_offset = None) =>
                  /\ ser'.buf = Append(ser.buf, IF value[idx] THEN 1 ELSE 0)
                  /\ ser'.bool_byte_offset = Len(ser.buf)
                  /\ ser'.bool_bit_pos = 1
            /\ (schema[idx] = BoolT /\ ser.bool_byte_offset # None) =>
                  /\ Len(ser'.buf) = Len(ser.buf)
                  /\ ser.bool_byte_offset = Len(ser.buf) - 1
        /\ Finalize =>
            /\ \A i \in 1..Len(ser.buf) :
                  (\A f \in 1..Len(ser.seq_fixups) :
                      i \notin {ser.seq_fixups[f][1] + 1, ser.seq_fixups[f][1] + 2})
                  => ser'.buf[i] = ser.buf[i]
            /\ (mode = "standalone" /\ schema = FixedInputs[3].schema) =>
                  out' = <<5, 0, 52, 18, 1>>
        /\ (DeserializeStep /\ pc' = "deserialize_model") =>
            /\ EndsRun(schema[idx]) =>
                  de'.bool_byte = None /\ de'.bool_bit_pos = 0
            /\ (schema[idx] = BoolT /\ de.bool_byte = None) =>
                  /\ de'.pos = de.pos + 1
                  /\ de'.bool_byte = de.data[de.pos + 1]
                  /\ de'.bool_bit_pos = 1
                  /\ decoded'[idx] = (Bit(de.data[de.pos + 1], 0) = 1)
            /\ (schema[idx] = BoolT /\ de.bool_byte # None) =>
                  /\ de'.pos = de.pos
                  /\ decoded'[idx] = (Bit(de.bool_byte, de.bool_bit_pos) = 1)
      ]_vars

\* bool,bool,bool,u16,bool went through the writer and the reader
C12_Witness ==
    /\ pc = "returned"
    /\ mode = "standalone"
    /\ schema = FixedInputs[3].schema
    /\ out = <<5, 0, 52, 18, 1>>
    /\ decoded = value

\* the fields written as a descriptor in the head
IsDescriptor(annotation) == annotation.k \in {"str", "list"}

\* the number of descriptors among the first i top-level fields; the inline
\* nested records of the inputs hold no string and no sequence
DescRank(i) == Cardinality({m \in 1..i : IsDescriptor(schema[m])})

\* where the head starts in out
HeadStart == IF mode = "message" THEN HEADER_SIZE ELSE 0

\* the descriptor of top-level field i, as it stands in out: the u16 offset
\* and, for a sequence, the u16 element_byte_size
DescriptorAt(i) == HeadStart + ser.seq_fixups[DescRank(i)][1]
OffsetOf(i) == FromLE(SubSeq(out, DescriptorAt(i) + 1, DescriptorAt(i) + 2))
ElemSizeOf(i) == FromLE(SubSeq(out, DescriptorAt(i) + 3, DescriptorAt(i) + 4))

Encoded == pc = "serialized" /\ mode \in {"standalone", "message"}

\* C13: empty sentinel on encode.  In every encoded record the offset of a
\* string or sequence descriptor is 0 if and only if the value is empty; an
\* empty sequence has offset 0 and element_byte_size 0, and only the
\* non-empty values have a data block.
C13_EmptySentinelEncode ==
    Encoded =>
        /\ \A i \in 1..Len(schema) : IsDescriptor(schema[i]) =>
              /\ (OffsetOf(i) = 0) <=> (value[i] = <<>>)
              /\ (is_list_type(schema[i]) /\ value[i] = <<>>) => ElemSizeOf(i) = 0
        /\ Len(ser.seq_data_blocks) =
              Cardinality({i \in 1..Len(schema) :
                              IsDescriptor(schema[i]) /\ value[i] # <<>>})

\* the half of C13 that the encoder keeps: a non-empty value never gets
\* offset 0, and an empty sequence gets element_byte_size 0
C13_NonEmptyOffset ==
    Encoded =>
        \A i \in 1..Len(schema) : IsDescriptor(schema[i]) =>
            /\ value[i] # <<>> => OffsetOf(i) # 0
            /\ (is_list_type(schema[i]) /\ value[i] = <<>>) => ElemSizeOf(i) = 0

(***************************************************************************)
(* Decoding of bytes that did not come unchanged from the encoder:         *)
(* deserialize (or deserialize_message) of an encoded record after the     *)
(* caller's buffer has been changed (a descriptor offset, an               *)
(* element_byte_size or a block count overwritten, the tail cut off, bytes *)
(* of a following message appended).  Every byte of these buffers is below *)
(* 128, so that any four of them read as a u32 stay below 2^31.            *)
(***************************************************************************)
DecodeInputs ==
    << [schema |-> <<StrT, UInt8>>, value |-> << <<65>>, 7 >>],
       [schema |-> <<ListT(UInt16), UInt8>>, value |-> << <<258, 3, 5>>, 7 >>],
       [schema |-> <<UInt8, StrT, ListT(BoolT)>>,
        value |-> << 7, <<>>, <<TRUE, FALSE>> >>],
       [schema |-> <<ListT(Point), BoolT>>,
        value |-> << << <<7, TRUE, 5>>, <<9, FALSE, 6>> >>, TRUE >>] >>

DecodeKeys == { <<0, 1>>, <<1, 66>> }

InitDecode ==
    /\ \E g \in 1..Len(DecodeInputs) :
          schema = DecodeInputs[g].schema /\ value = DecodeInputs[g].value
    /\ \/ mode = "standalone" /\ keys = <<0, 0>>
       \/ mode = "message" /\ keys \in DecodeKeys
    /\ pc = "serialized"
    /\ idx = Len(schema) + 1
    /\ ser = finalize(serialize_model(
                IF mode = "message" THEN set_base_offset(SerializerInit, HEADER_SIZE)
                ELSE SerializerInit, value, schema, 1))
    /\ out = IF mode = "message" THEN serialize_message(value, schema, keys[1], keys[2])
             ELSE serialize(value, schema)
    /\ de = DeserializerInit(<<>>, 0)
    /\ header = <<>>
    /\ decoded = <<>>
    /\ messages = <<>>
    /\ pkt = <<>>
    /\ touched = {}
    /\ res = NoResult

\* the u16 offset of one descriptor is overwritten
SetOffset ==
    /\ pc = "serialized"
    /\ touched \subseteq {"tail"}
    /\ \E i \in 1..Len(schema) :
          /\ IsDescriptor(schema[i])
          /\ \E w \in {0, OffsetOf(i) + 4, Len(out) - 2, Len(out), Len(out) + 4,
                       FromLE(SubSeq(ser.buf, ser.seq_fixups[DescRank(i)][1] + 1,
                                     ser.seq_fixups[DescRank(i)][1] + 2))
                       + Len(ser.seq_data_blocks[DescRank(i)])} \ {OffsetOf(i)} :
                out' = SetBytes(out, DescriptorAt(i), PackInt(w, 2))
    /\ touched' = touched \cup {"offset"}
    /\ UNCHANGED <<pc, mode, schema, value, keys, idx, ser, de, header, decoded>>
    /\ UNCHANGED <<messages, pkt, res>>

\* the u16 element_byte_size of one sequence descriptor is overwritten
SetElemSize ==
    /\ pc = "serialized"
    /\ touched \subseteq {"offset"}
    /\ \E i \in 1..Len(schema) :
          /\ is_list_type(schema[i])
          /\ \E e \in {0, 1, 3} \ {ElemSizeOf(i)} :
                out' = SetBytes(out, DescriptorAt(i) + 2, PackInt(e, 2))
    /\ touched' = touched \cup {"elem"}
    /\ UNCHANGED <<pc, mode, schema, value, keys, idx, ser, de, header, decoded>>
    /\ UNCHANGED <<messages, pkt, res>>

\* the u32 count at the head of one data block is overwritten
SetCount ==
    /\ pc = "serialized"
    /\ touched \subseteq {"tail"}
    /\ \E i \in 1..Len(schema) :
          /\ IsDescriptor(schema[i])
          /\ LET cur == FromLE(SubSeq(out, OffsetOf(i) + 1, OffsetOf(i) + 4))
             IN \E c \in {0, cur + 1, cur + 2, cur + 9} \ {cur} :
                   out' = SetBytes(out, OffsetOf(i), PackInt(c, 4))
    /\ touched' = touched \cup {"count"}
    /\ UNCHANGED <<pc, mode, schema, value, keys, idx, ser, de, header, decoded>>
    /\ UNCHANGED <<messages, pkt, res>>

\* the buffer is cut to its first n bytes; the head stays whole
CutTail ==
    /\ pc = "serialized"
    /\ touched \subseteq {"count"}
    /\ \E n \in {Len(out) - 1, Len(out) - 4, Len(out) - 6} :
          /\ n >= HeadStart + ser.pos
          /\ out' = SubSeq(out, 1, n)
    /\ touched' = touched \cup {"cut"}
    /\ UNCHANGED <<pc, mode, schema, value, keys, idx, ser, de, header, decoded>>
    /\ UNCHANGED <<messages, pkt, res>>

\* the buffer holds more than the record: the bytes of a following message
AppendTail ==
    /\ pc = "serialized"
    /\ touched = {}
    /\ out' = out \o empty_message(2, 3)
    /\ touched' = {"tail"}
    /\ UNCHANGED <<pc, mode, schema, value, keys, idx, ser, de, header, decoded>>
    /\ UNCHANGED <<messages, pkt, res>>

NextDecode ==
    \/ SetOffset
    \/ SetElemSize
    \/ SetCount
    \/ CutTail
    \/ AppendTail
    \/ BeginDeserialize
    \/ DeserializeStep
    \/ EndDeserialize

SpecDecode == InitDecode /\ [][NextDecode]_vars

\* the packed size of one sequence element
RECURSIVE ElemByteSize(_)
RECURSIVE FieldsByteSize(_, _)
ElemByteSize(annotation) ==
    IF annotation.k = "WireType" THEN annotation.size
    ELSE IF is_pydantic_model(annotation) THEN FieldsByteSize(annotation.model_fields, 1)
    ELSE 1
FieldsByteSize(fields, i) ==
    IF i > Len(fields) THEN 0
    ELSE ElemByteSize(fields[i]) + FieldsByteSize(fields, i + 1)

\* the end of what the decoder was given: the end of the message
\* (header.length * 4) or the end of the buffer, whichever comes first
DataEnd ==
    IF mode = "message" THEN Min(Len(out), FromLE(SubSeq(out, 5, 6)) * 4) ELSE Len(out)

\* the byte after the data block that the descriptor of field i and the
\* count at its offset declare, where that count can be read
DeclaredBlockEnd(i, limit) ==
    LET o == OffsetOf(i)
    IN IF o + 4 > limit THEN o + 4
       ELSE o + 4 + FromLE(SubSeq(out, o + 1, o + 4))
                    * (IF is_list_type(schema[i])
                       THEN ElemByteSize(list_element_type(schema[i])) ELSE 1)

BlockOverrun(i) ==
    /\ IsDescriptor(schema[i])
    /\ OffsetOf(i) # 0
    /\ DeclaredBlockEnd(i, DataEnd) > DataEnd

\* C14: truncated block on decode.  Whenever the offset of a string or
\* sequence descriptor, or the count read at that offset, makes the data
\* block extend past the end of the message or of the buffer, deserialize
\* and deserialize_message raise and return no value.
C14_TruncatedBlock ==
    (Ended /\ mode \in {"standalone", "message"}
           /\ \E i \in 1..Len(schema) : BlockOverrun(i)) => pc = "raised"

\* the part of C14 that the decoder keeps: a sequence block that extends
\* past the end of the buffer, and a string block whose count lies past the
\* end of the buffer, make the call raise
C14_PastBuffer ==
    (Ended /\ mode \in {"standalone", "message"}
           /\ \E i \in 1..Len(schema) :
                 /\ IsDescriptor(schema[i])
                 /\ OffsetOf(i) # 0
                 /\ \/ OffsetOf(i) + 4 > Len(out)
                    \/ is_list_type(schema[i]) /\ DeclaredBlockEnd(i, Len(out)) > Len(out))
        => pc = "raised"

\* a block overrun was met and the call raised
C14_RaisedWitness ==
    /\ pc = "raised"
    /\ touched = {"cut"}
    /\ \E i \in 1..Len(schema) : is_list_type(schema[i]) /\ BlockOverrun(i)

\* the messages are well-formed ones followed by the entry e of MessagePool
EndsWith(e) ==
    /\ Len(messages) >= 1
    /\ messages[Len(messages)] = MessagePool[e]
    /\ \A i \in 1..(Len(messages) - 1) : \E j \in WellFormed : messages[i] = MessagePool[j]

\* C15: inner message length below the header size.  When the message walk
\* of deserialize_packet comes to a header whose length field is 1
\* (msg_len = 4 < 8), the call fails.
C15_ShortInnerLength ==
    (Unpacked /\ touched = {} /\ EndsWith(6)) => res.err # ""

\* what the walk does with such a header: it ends without error and the
\* call returns the messages before it
C15_ShortInnerEndsWalk ==
    (Unpacked /\ touched = {} /\ EndsWith(6)) =>
        /\ res.err = ""
        /\ res.messages = SubSeq(messages, 1, Len(messages) - 1)

\* the messages are n well-formed ones followed by zero bytes only
ZeroTail(n) ==
    /\ n < Len(messages)
    /\ \A i \in 1..n : \E j \in WellFormed : messages[i] = MessagePool[j]
    /\ \A i \in (n + 1)..Len(messages) : messages[i] \in {Zeros(8), Zeros(4)}

\* C16: trailing padding tolerance.  For a packet with valid magic, length
\* and CRC whose well-formed messages are followed by zero bytes only (fewer
\* than 8, or 8 and more that read as a header of length 0),
\* deserialize_packet returns the messages before the zero bytes, in order.
C16_TrailingPadding ==
    \A n \in 0..MaxMessages :
        (Unpacked /\ touched = {} /\ ZeroTail(n)) =>
            /\ res.err = ""
            /\ res.messages = SubSeq(messages, 1, n)
            /\ res.header = <<PacketHeader(Len(pkt) \div 4, crc16_ccitt(Concat(messages)))>>

\* a message followed by 8 zero bytes
C16_Witness ==
    /\ Unpacked
    /\ touched = {}
    /\ messages = <<MessagePool[2], Zeros(8)>>
    /\ res.messages = <<MessagePool[2]>>

\* a message followed by 4 zero bytes
C16_WitnessShort ==
    /\ Unpacked
    /\ touched = {}
    /\ messages = <<MessagePool[3], Zeros(4)>>
    /\ res.messages = <<MessagePool[3]>>
    /\ Len(pkt) = PACKET_HEADER_SIZE + Len(MessagePool[3]) + 4

\* the head slot that the write of a top-level field ends with: the field
\* itself, or the last field of an inline nested record
LastSlot(annotation) ==
    IF is_pydantic_model(annotation)
    THEN annotation.model_fields[Len(annotation.model_fields)]
    ELSE annotation

\* the bytes a slot takes in the head and the multiple it starts at:
\* min(size, 4) for a scalar, 2 for a descriptor, 1 for a bool
SlotSize(annotation) ==
    IF annotation.k = "WireType" THEN annotation.size
    ELSE IF annotation.k = "str" THEN 2
    ELSE IF annotation.k = "list" THEN 4
    ELSE 1
SlotAlign(annotation) ==
    IF annotation.k = "WireType" THEN Min(annotation.size, 4)
    ELSE IF IsDescriptor(annotation) THEN 2
    ELSE 1

\* the Serializer after the first k top-level fields
WriterAfter(k) ==
    serialize_model(IF mode = "message" THEN set_base_offset(SerializerInit, HEADER_SIZE)
                    ELSE SerializerInit,
                    SubSeq(value, 1, k), SubSeq(schema, 1, k), 1)

RECURSIVE SumPadded(_, _)
SumPadded(blocks, k) ==
    IF k = 0 THEN 0 ELSE SumPadded(blocks, k - 1) + Pad4(Len(blocks[k]))

\* the top-level field that the k-th descriptor belongs to
FieldOfDescriptor(k) ==
    CHOOSE i \in 1..Len(schema) : IsDescriptor(schema[i]) /\ DescRank(i) = k

\* the count that heads the block of a value: the bytes of a string, the
\* elements of a sequence
CountOf(annotation, v) == IF annotation.k = "str" THEN Len(Utf8Encode(v)) ELSE Len(v)

\* C18: offset finalization.  After finalize the offset in the k-th
\* descriptor is base_offset + the head length padded to 4 + the padded
\* lengths of the blocks before it; it is a multiple of 4 from the message
\* start, not before the end of the head and inside the encoded message,
\* and the bytes there are the block of the k-th string or sequence field.
C18_OffsetFinalization ==
    [][ (Finalize /\ mode \in {"standalone", "message"}) =>
          \A k \in 1..Len(ser.seq_fixups) :
             LET at == HeadStart + ser.seq_fixups[k][1]
                 off == FromLE(SubSeq(out', at + 1, at + 2))
                 block == ser.seq_data_blocks[k]
                 i == FieldOfDescriptor(k)
             IN /\ ser.seq_fixups[k][2] = k - 1
                /\ off = ser.base_offset + Pad4(Len(ser.buf))
                         + SumPadded(ser.seq_data_blocks, k - 1)
                /\ off % 4 = 0
                /\ off >= ser.base_offset + Len(ser.buf)
                /\ off + Len(block) <= Len(out')
                /\ SubSeq(out', off + 1, off + Len(block)) = block
                /\ FromLE(SubSeq(out', off + 1, off + 4)) = CountOf(schema[i], value[i])
                /\ Len(ser.seq_fixups) = DescRank(Len(schema))
      ]_vars

\* three blocks, the head padded before the first of them
C18_Witness ==
    /\ Encoded
    /\ mode = "message"
    /\ Len(ser.seq_data_blocks) = 3
    /\ schema[1] = StrT
    /\ OffsetOf(1) = 16
    /\ OffsetOf(2) > OffsetOf(1)
    /\ OffsetOf(3) > OffsetOf(2)

\* the bytes of one sequence element: a scalar in its size, a bool as one
\* byte 0 or 1, a record as its fields one after the other
RECURSIVE ElemBytes(_, _)
RECURSIVE RecordBytes(_, _, _)
ElemBytes(annotation, v) ==
    IF annotation.k = "WireType" THEN PackInt(v, annotation.size)
    ELSE IF is_pydantic_model(annotation) THEN RecordBytes(annotation.model_fields, v, 1)
    ELSE <<IF v THEN 1 ELSE 0>>
RecordBytes(fields, v, i) ==
    IF i > Len(fields) THEN <<>>
    ELSE ElemBytes(fields[i], v[i]) \o RecordBytes(fields, v, i + 1)

\* C19: sequence block layout.  The block of a sequence field is the u32
\* count of its elements, the elements in order with nothing between them,
\* and zero bytes up to a multiple of 4; element_byte_size in the
\* descriptor is the size of the first element, 0 for an empty sequence.
C19_SequenceBlockLayout ==
    [][ (SerializeStep /\ is_list_type(schema[idx])) =>
          LET values == value[idx]
              ea == list_element_type(schema[idx])
              es == ElemByteSize(ea)
              n == Len(values)
              block == ser'.seq_data_blocks[Len(ser'.seq_data_blocks)]
              at == ser'.seq_fixups[Len(ser'.seq_fixups)][1]
          IN /\ Len(ser'.seq_data_blocks) = Len(ser.seq_data_blocks) + 1
             /\ SubSeq(block, 1, 4) = PackInt(n, 4)
             /\ Len(block) = Pad4(4 + n * es)
             /\ \A e \in 1..n :
                   SubSeq(block, 4 + (e - 1) * es + 1, 4 + e * es) = ElemBytes(ea, values[e])
             /\ \A j \in (4 + n * es + 1)..Len(block) : block[j] = 0
             /\ at = ser'.pos - 4
             /\ FromLE(SubSeq(ser'.buf, at + 3, at + 4)) = (IF n = 0 THEN 0 ELSE es)
      ]_vars

\* three bools in a sequence: one byte each, one byte of padding
C19_Witness ==
    /\ Encoded
    /\ mode = "standalone"
    /\ schema = <<ListT(BoolT)>>
    /\ out = <<4, 0, 1, 0, 3, 0, 0, 0, 1, 0, 1, 0>>

\* two records in a sequence: 4 bytes each, no alignment inside
C19_WitnessRecords ==
    /\ Encoded
    /\ mode = "standalone"
    /\ schema = <<ListT(Point)>>
    /\ out = <<4, 0, 4, 0, 2, 0, 0, 0, 7, 1, 212, 254, 9, 0, 5, 0>>

\* the offset the encoder gave the descriptor of field i
EncodedOffsetOf(i) ==
    FromLE(SubSeq(ser.buf, ser.seq_fixups[DescRank(i)][1] + 1,
                  ser.seq_fixups[DescRank(i)][1] + 2))

\* the buffer is the encoded record with descriptor offsets set to 0 and
\* element_byte_size fields changed, and nothing else
OnlySentinels ==
    /\ mode \in {"standalone", "message"}
    /\ touched \subseteq {"offset", "elem"}
    /\ \A i \in 1..Len(schema) : IsDescriptor(schema[i]) =>
          OffsetOf(i) \in {0, EncodedOffsetOf(i)}

\* what C20 expects of the decoder: the fields with offset 0 are empty,
\* the others as encoded
SentinelsDecoded ==
    /\ pc = "returned"
    /\ Len(decoded) = Len(schema)
    /\ \A i \in 1..Len(schema) :
          decoded[i] = IF IsDescriptor(schema[i]) /\ OffsetOf(i) = 0 THEN <<>>
                       ELSE value[i]

\* C20: empty sentinel on decode.  A string or sequence descriptor whose
\* offset is 0 decodes as the empty value, whatever the element_byte_size
\* of a sequence descriptor is, and the fields after it decode at their
\* positions.
C20_EmptySentinelDecode ==
    (Ended /\ OnlySentinels) => SentinelsDecoded

\* the part of C20 that the decoder keeps: offset 0 is the empty value for
\* a string, and for a sequence whose element_byte_size is 0
C20_SentinelWithZeroSize ==
    (Ended /\ OnlySentinels
           /\ \A i \in 1..Len(schema) :
                 (is_list_type(schema[i]) /\ OffsetOf(i) = 0) => ElemSizeOf(i) = 0)
        => SentinelsDecoded

\* a sequence descriptor with offset 0 and element_byte_size 0 was decoded
C20_ZeroSizeWitness ==
    /\ pc = "returned"
    /\ OnlySentinels
    /\ touched = {"offset", "elem"}
    /\ \E i \in 1..Len(schema) :
          is_list_type(schema[i]) /\ OffsetOf(i) = 0 /\ ElemSizeOf(i) = 0 /\ value[i] # <<>>

(***************************************************************************)
(* CRC-16/CCITT-FALSE as its definition gives it: the message is shifted   *)
(* in one bit at a time, most significant bit of each byte first, through  *)
(* a 16-bit register that starts at 0xFFFF; when the bit shifted out       *)
(* differs from the message bit, the polynomial 0x1021 is added.           *)
(***************************************************************************)
RefBit(r, b) ==
    LET shifted == (r * 2) % 65536
    IN IF (r \div 32768) # b THEN Xor(shifted, 4129) ELSE shifted

RefByte(r, byte) ==
    RefBit(RefBit(RefBit(RefBit(RefBit(RefBit(RefBit(RefBit(r,
        Bit(byte, 7)), Bit(byte, 6)), Bit(byte, 5)), Bit(byte, 4)),
        Bit(byte, 3)), Bit(byte, 2)), Bit(byte, 1)), Bit(byte, 0))

\* from byte i on, with the running value c of crc16_ccitt and the register
\* r of the reference: they are equal and within 16 bits after every byte
RECURSIVE CrcAgrees(_, _, _, _)
CrcAgrees(c, r, data, i) ==
    /\ c = r
    /\ c \in 0..65535
    /\ i <= Len(data) => CrcAgrees(CrcByte(c, data[i]), RefByte(r, data[i]), data, i + 1)

RECURSIVE RefCrc(_, _, _)
RefCrc(r, data, i) ==
    IF i > Len(data) \/ r \notin 0..65535 THEN r
    ELSE RefCrc(RefByte(r, data[i]), data, i + 1)

\* the bytes that the CRC of a packet covers: 8 .. length_words * 4
CrcRegion(p) == Slice(p, PACKET_HEADER_SIZE, FromLE(SubSeq(p, 5, 6)) * 4)

\* C21: CRC computation.  crc16_ccitt equals the bitwise CRC-16/CCITT-FALSE
\* reference (polynomial 0x1021, initial value 0xFFFF, most significant bit
\* first, no final XOR); the running value stays within 16 bits after every
\* byte; the CRC of the empty sequence is 0xFFFF; the CRC field written by
\* serialize_packet is crc16_ccitt of the bytes 8 .. length_words * 4 of the
\* packet, padding included.
C21_CrcComputation ==
    /\ pc = "serialize_packet" =>
          /\ crc16_ccitt(<<>>) = 65535
          /\ crc16_ccitt(<<49, 50, 51, 52, 53, 54, 55, 56, 57>>) = 10673
    /\ (pc = "packet" /\ touched = {}) =>
          LET d == CrcRegion(pkt)
          IN /\ CrcAgrees(65535, 65535, d, 1)
             /\ crc16_ccitt(d) = RefCrc(65535, d, 1)
             /\ FromLE(SubSeq(pkt, 7, 8)) = crc16_ccitt(d)
             /\ Len(pkt) = FromLE(SubSeq(pkt, 5, 6)) * 4
             /\ d = Concat(messages) \o Zeros(Len(d) - Len(Concat(messages)))
    /\ (pc = "packet" /\ touched = {"bit"} /\ Len(messages) = 1) =>
          LET d == CrcRegion(pkt)
          IN /\ CrcAgrees(65535, 65535, d, 1)
             /\ crc16_ccitt(d) = RefCrc(65535, d, 1)

\* a packet of one message of 3 bytes: the CRC covers the byte of padding
C21_Witness ==
    /\ pc = "packet"
    /\ touched = {}
    /\ messages = <<MessagePool[4]>>
    /\ CrcRegion(pkt) = <<1, 2, 3, 0>>
    /\ FromLE(SubSeq(pkt, 7, 8)) = RefCrc(65535, <<1, 2, 3, 0>>, 1)

\* the CRC of a message region in which one bit was inverted
C21_WitnessFlipped ==
    /\ pc = "packet"
    /\ touched = {"bit"}
    /\ Len(messages) = 1
    /\ Len(pkt) > 16
    /\ crc16_ccitt(CrcRegion(pkt)) # FromLE(SubSeq(pkt, 7, 8))

\* deserialize_packet returned: the packet was accepted
Accepted == pc = "deserialize_packet" /\ res.err = ""

\* length_words * 4 of the buffer handed to deserialize_packet
TotalBytes == FromLE(SubSeq(pkt, 5, 6)) * 4

\* the offset in the input at which the k-th returned slice starts
RECURSIVE SliceStart(_)
SliceStart(k) ==
    IF k <= 1 THEN PACKET_HEADER_SIZE
    ELSE SliceStart(k - 1) + Len(res.messages[k - 1])

\* the returned slices are consecutive byte ranges of the input from offset
\* 8 on; each is 4 * (its own length field) long, at least 8 bytes, and ends
\* at or before length_words * 4
Partition ==
    \A k \in 1..Len(res.messages) :
        LET m == res.messages[k]
        IN /\ m = Slice(pkt, SliceStart(k), SliceStart(k) + Len(m))
           /\ SliceStart(k) + Len(m) <= Len(pkt)
           /\ Len(m) = 4 * MessageHeader_decode(m, 0)[1].length
           /\ Len(m) >= HEADER_SIZE
           /\ SliceStart(k + 1) >= SliceStart(k) + HEADER_SIZE
           /\ SliceStart(k + 1) <= TotalBytes

\* the input with every byte from offset n on replaced by another value
Replaced(n) == [i \in 1..Len(pkt) |-> IF i > n THEN 255 - pkt[i] ELSE pkt[i]]

\* the result depends on no byte of the input from offset n on: it is the
\* same with those bytes replaced and with those bytes removed
Independent(n) ==
    /\ deserialize_packet(Replaced(n)) = res
    /\ deserialize_packet(SubSeq(pkt, 1, Min(n, Len(pkt)))) = res

\* C22 as stated: packet partition invariant.  On every successful return of
\* deserialize_packet the returned slices are consecutive, non-overlapping
\* byte ranges of the input from offset 8 on, each 4 * (its own length
\* field) long and at least 8 bytes, ending at or before length_words * 4;
\* the walk ends; bytes of the input at or beyond length_words * 4 never
\* influence the result.
C22_PartitionAsStated ==
    Accepted =>
        /\ Partition
        /\ Len(res.messages) * HEADER_SIZE <= Len(pkt)
        /\ Independent(TotalBytes)

\* C22: the partition invariant, with the last part for the bytes at or
\* beyond the larger of 8 and length_words * 4: the 8 bytes of the packet
\* header are read whatever length_words says.
C22_PacketPartition ==
    Accepted =>
        /\ Partition
        /\ Len(res.messages) * HEADER_SIZE <= Len(pkt)
        /\ Independent(IF TotalBytes < PACKET_HEADER_SIZE
                       THEN PACKET_HEADER_SIZE ELSE TotalBytes)

\* two slices are returned from a packet that is followed by 8 bytes that
\* read as a message
C22_Witness ==
    /\ Accepted
    /\ touched = {"trailing"}
    /\ Len(res.messages) = 2
    /\ Len(pkt) = TotalBytes + 8
    /\ SliceStart(3) = TotalBytes

\* a packet is accepted whose length field is below 2: bytes of its header
\* lie at or beyond length_words * 4
C22_ShortLengthAccepted ==
    /\ Accepted
    /\ TotalBytes < PACKET_HEADER_SIZE
    /\ ~Independent(TotalBytes)

\* the state of the bool packer of a Serializer: pos is the length of the
\* head, and the shared byte is absent with bit position 0, or is the last
\* byte of the head with bit position 1..7
WriterPacked(s) ==
    /\ s.pos = Len(s.buf)
    /\ \/ s.bool_byte_offset = None /\ s.bool_bit_pos = 0
       \/ /\ s.bool_byte_offset = Len(s.buf) - 1
          /\ s.bool_byte_offset >= 0
          /\ s.bool_bit_pos \in 1..7

\* the state of the bool packer of a Deserializer: the shared byte is
\* absent with bit position 0, or is the byte at pos - 1 with bit position
\* 1..7
ReaderPacked(d) ==
    \/ d.bool_byte = None /\ d.bool_bit_pos = 0
    \/ /\ d.pos \in 1..Len(d.data)
       /\ d.bool_byte = d.data[d.pos]
       /\ d.bool_bit_pos \in 1..7

\* the Serializer after the first j fields of the inline nested model that
\* is field idx of the record
AfterNested(j) ==
    NestedLoop(ser, value[idx],
               [schema[idx] EXCEPT !.model_fields = SubSeq(@, 1, j)], 1)

\* C23: bool packer state invariant.  After every write operation of the
\* Serializer, before finalize, pos = len(buf), and bool_byte_offset is None
\* with bool_bit_pos = 0, or bool_byte_offset = len(buf) - 1 with
\* 1 <= bool_bit_pos <= 7.  After every read operation of the Deserializer,
\* bool_byte is None with bool_bit_pos = 0, or bool_byte is the byte at
\* pos - 1 with 1 <= bool_bit_pos <= 7.
C23_BoolPackerState ==
    /\ pc = "serialize_model" =>
          /\ WriterPacked(ser)
          /\ (idx <= Len(schema) /\ schema[idx].k = "model") =>
                \A j \in 1..Len(schema[idx].model_fields) : WriterPacked(AfterNested(j))
    /\ pc = "deserialize_model" => ReaderPacked(de)

\* the part of C23 that holds: the Serializer in every mode, and the
\* Deserializer of a standalone record
C23_WriterAndStandalone ==
    (pc = "serialize_model" \/ mode = "standalone") => C23_BoolPackerState

\* a Deserializer whose shared byte is active and is not the byte at pos - 1
C23_ReaderDisplaced ==
    /\ pc = "deserialize_model"
    /\ mode = "message"
    /\ de.bool_byte # None
    /\ de.pos = Len(de.data)
    /\ de.bool_byte # de.data[de.pos]

====
